---- MODULE Spec2Model ----
(***************************************************************************)
(* Bufferization of mhlo.reshape, mhlo.dynamic_reshape and                 *)
(* mhlo.dynamic_broadcast_in_dim (hlo_legalize_to_memref.cc).              *)
(*                                                                         *)
(* Dimensions are numbered from 0 as in the source; a sequence holds       *)
(* dimension i at position i + 1.  SSA values are modelled by the value    *)
(* they evaluate to at run time; the operations the rewriter creates are   *)
(* recorded, in creation order, in `emitted`.                              *)
(***************************************************************************)
EXTENDS Integers, Sequences, FiniteSets, TLC

\* Largest rank of a result (and so of an operand) that is enumerated.
MaxRank == 2
\* Dimension sizes are drawn from 1..MaxSize.
MaxSize == 2
\* Largest number of operations one bufferization run visits.
MaxOps == 2

\* ShapedType::kDynamicSize, the marker ShapedType::isDynamic tests for.
kDynamic == -1

Sizes == 1..MaxSize
ElementTypes == {"f32", "i32"}
MhloNamespace == "mhlo"

ReshapeOp == "mhlo.reshape"
DynamicReshapeOp == "mhlo.dynamic_reshape"
DynamicBroadcastInDimOp == "mhlo.dynamic_broadcast_in_dim"

SeqsUpTo(S, n) == UNION {[1..k -> S] : k \in 0..n}

(***************************************************************************)
(* Types and created operations.                                           *)
(***************************************************************************)
isDynamic(d) == d = kDynamic

\* MemRefType::get(shape, elementType[, layout]).
MemRefType(shape, elt, layout) ==
  [ranked |-> TRUE, shape |-> shape, elt |-> elt, layout |-> layout]

\* UnrankedMemRefType::get(elementType, 0).
UnrankedMemRefType(elt) ==
  [ranked |-> FALSE, shape |-> <<>>, elt |-> elt, layout |-> "identity"]

\* An operation the builder creates: its name and what it was created with.
Created(name, detail) == [name |-> name, detail |-> detail]

OfName(ops, name) == {k \in DOMAIN ops : ops[k].name = name}

(***************************************************************************)
(* InsertDynamicMemrefCastOp: the reversed scan product.                   *)
(***************************************************************************)
\* A scan step that multiplies before it stores the stride.
ScanStepInclusive(operand_shape, operand_dims, i, acc) ==
  LET operand_dim_size == IF isDynamic(operand_shape[i + 1])
                            THEN operand_dims[i + 1]
                            ELSE operand_shape[i + 1]
      next == acc.stride_so_far * operand_dim_size
  IN [operand_sizes   |-> [acc.operand_sizes EXCEPT ![i + 1] = operand_dim_size],
      operand_strides |-> [acc.operand_strides EXCEPT ![i + 1] = next],
      stride_so_far   |-> next,
      ops |-> acc.ops \o <<Created("arith.constant", operand_dim_size),
                           Created("arith.muli", next)>>]

\* One iteration of the loop over i = operand_rank - 1 .. 0.  A dynamic size
\* is read from the buffer (memref.dim), a static one is a constant.
ScanStep(operand_shape, operand_dims, i, acc) ==
  LET dyn == isDynamic(operand_shape[i + 1])
      operand_dim_size == IF dyn THEN operand_dims[i + 1]
                                 ELSE operand_shape[i + 1]
      size_op == IF dyn THEN Created("memref.dim", i)
                        ELSE Created("arith.constant", operand_shape[i + 1])
  IN [operand_sizes   |-> [acc.operand_sizes EXCEPT ![i + 1] = operand_dim_size],
      operand_strides |-> [acc.operand_strides EXCEPT ![i + 1] = acc.stride_so_far],
      stride_so_far   |-> IF i > 0 THEN acc.stride_so_far * operand_dim_size
                                   ELSE acc.stride_so_far,
      ops |-> acc.ops \o <<size_op>> \o
              (IF i > 0 THEN <<Created("arith.muli",
                                       acc.stride_so_far * operand_dim_size)>>
                        ELSE <<>>)]

RECURSIVE ScanLoop(_, _, _, _)
ScanLoop(operand_shape, operand_dims, i, acc) ==
  IF i < 0 THEN acc
  ELSE ScanLoop(operand_shape, operand_dims, i - 1,
                ScanStep(operand_shape, operand_dims, i, acc))

\* operand_strides and operand_sizes start as operand_rank copies of `one`.
ReversedScanProduct(operand_shape, operand_dims) ==
  LET operand_rank == Len(operand_shape)
  IN ScanLoop(operand_shape, operand_dims, operand_rank - 1,
              [operand_sizes   |-> [k \in 1..operand_rank |-> 1],
               operand_strides |-> [k \in 1..operand_rank |-> 1],
               stride_so_far   |-> 1,
               ops |-> <<>>])

(***************************************************************************)
(* InsertDynamicMemrefCastOp: the inverse map and the strides.             *)
(***************************************************************************)
\* output_to_input_dim after the first n entries of broadcast_dimensions:
\* output_to_input_dim[dim.value()] = dim.index(), a later entry overwriting.
RECURSIVE OutputToInputDim(_, _)
OutputToInputDim(broadcast_dimensions, n) ==
  IF n = 0 THEN [d \in {} |-> 0]
  ELSE (broadcast_dimensions[n] :> (n - 1))
         @@ OutputToInputDim(broadcast_dimensions, n - 1)

\* The select with the comparison `sle` in place of `slt`.
SelectStrideSle(operand_size, result_dim_size, operand_stride) ==
  IF operand_size <= result_dim_size THEN 0 ELSE operand_stride

\* select(cmpi slt operand_sizes[dim], result_dim_size, zero, operand_strides[dim])
SelectStride(operand_size, result_dim_size, operand_stride) ==
  IF operand_size < result_dim_size THEN 0 ELSE operand_stride

\* `one` pushed for a dimension the map does not hold.
UnmappedStrideOfOne(zero, one) == one

\* strides.push_back(zero) for a dimension the map does not hold.
UnmappedStride(zero, one) == zero

\* tensor.extract of output_dimensions at i, cast to index when it is not one.
\* The cast extends an integer that is a dimension size, so keeps its value.
ResultDimSize(op, i) == op.output_dimensions[i + 1]

ResultDimSizeOps(op, i) ==
  <<Created("tensor.extract", i)>> \o
  (IF op.shape_is_index THEN <<>> ELSE <<Created("arith.index_cast", i)>>)

\* One iteration of the loop over i = 0 .. result_rank - 1.
DimStep(op, scan, output_to_input_dim, i, acc) ==
  LET result_shape == op.result_type.shape
      result_dim_size == ResultDimSize(op, i)
      size == IF isDynamic(result_shape[i + 1]) THEN result_dim_size
                                                ELSE result_shape[i + 1]
      read == <<Created("arith.constant", i)>> \o ResultDimSizeOps(op, i)
  IN IF i \notin DOMAIN output_to_input_dim
       THEN [sizes   |-> Append(acc.sizes, size),
             strides |-> Append(acc.strides, UnmappedStride(0, 1)),
             ops     |-> acc.ops \o read]
       ELSE LET dim == output_to_input_dim[i]
                stride == SelectStride(scan.operand_sizes[dim + 1],
                                       result_dim_size,
                                       scan.operand_strides[dim + 1])
            IN [sizes   |-> Append(acc.sizes, size),
                strides |-> Append(acc.strides, stride),
                ops     |-> acc.ops \o read \o
                            <<Created("arith.cmpi", dim),
                              Created("arith.select", stride)>>]

RECURSIVE DimLoop(_, _, _, _, _)
DimLoop(op, scan, output_to_input_dim, i, acc) ==
  IF i >= Len(op.result_type.shape) THEN acc
  ELSE DimLoop(op, scan, output_to_input_dim, i + 1,
               DimStep(op, scan, output_to_input_dim, i, acc))

\* The function: what it creates (ops), the view it returns (its last
\* operation), and the scan it computed.
InsertDynamicMemrefCastOp(op, operand) ==
  LET scan == ReversedScanProduct(operand.type.shape, operand.dims)
      output_to_input_dim ==
        OutputToInputDim(op.broadcast_dimensions, Len(op.broadcast_dimensions))
      dims == DimLoop(op, scan, output_to_input_dim, 0,
                      [sizes |-> <<>>, strides |-> <<>>, ops |-> <<>>])
      type_erased_memref_type ==
        MemRefType(op.result_type.shape, operand.type.elt, "strided")
      transformed_operand ==
        Created("memref.reinterpret_cast",
                [source  |-> "operand_buffer",
                 offset  |-> 0,
                 sizes   |-> dims.sizes,
                 strides |-> dims.strides,
                 type    |-> type_erased_memref_type])
  IN [ops  |-> <<Created("arith.constant", 0), Created("arith.constant", 1)>>
               \o scan.ops \o dims.ops \o <<transformed_operand>>,
      view |-> transformed_operand,
      scan |-> scan]

(***************************************************************************)
(* CreateCopy.                                                             *)
(***************************************************************************)
\* The loop over i = 0 .. rank - 1 from dimension i on: static dimensions are
\* skipped, a dynamic one reads its size from output_dimensions.
RECURSIVE DynamicOperands(_, _, _)
DynamicOperands(op, shape, i) ==
  IF i >= Len(shape) THEN [sizes |-> <<>>, ops |-> <<>>]
  ELSE LET rest == DynamicOperands(op, shape, i + 1)
       IN IF ~isDynamic(shape[i + 1]) THEN rest
          ELSE [sizes |-> <<ResultDimSize(op, i)>> \o rest.sizes,
                ops   |-> <<Created("arith.constant", i)>>
                          \o ResultDimSizeOps(op, i) \o rest.ops]

CreateCopy(op, broadcasted) ==
  LET result_type == broadcasted.detail.type
      dynamic_operands == DynamicOperands(op, result_type.shape, 0)
      identity_map_memref ==
        MemRefType(result_type.shape, result_type.elt, "identity")
      copy == Created("memref.alloc",
                      [type |-> identity_map_memref,
                       dynamic_operands |-> dynamic_operands.sizes])
  IN [ops  |-> dynamic_operands.ops \o
               <<copy, Created("memref.copy",
                               [source |-> broadcasted, target |-> copy])>>,
      copy |-> copy]

(***************************************************************************)
(* The effect declarations of the three external models.                   *)
(***************************************************************************)
bufferizesToMemoryRead(name) == name = DynamicBroadcastInDimOp

bufferizesToMemoryWrite(name) == FALSE

getAliasingOpResult(name) == {0}

\* Every model declaring its result equivalent to the operand.
bufferRelationEquivalent(name) == "Equivalent"

bufferRelation(name) ==
  IF name = DynamicBroadcastInDimOp THEN "None" ELSE "Equivalent"

Declarations(name) ==
  [readsMemory     |-> bufferizesToMemoryRead(name),
   writesMemory    |-> bufferizesToMemoryWrite(name),
   aliasingResults |-> getAliasingOpResult(name),
   bufferRelation  |-> bufferRelation(name)]

\* registerBufferizableOpInterfaceExternalModels: the kinds with a model.
RegisteredModels == {ReshapeOp, DynamicReshapeOp, DynamicBroadcastInDimOp}

(***************************************************************************)
(* The operations a run may meet.                                          *)
(***************************************************************************)
RankedTensorType(shape, elt) == [ranked |-> TRUE, shape |-> shape, elt |-> elt]

UnrankedTensorType(elt) == [ranked |-> FALSE, shape |-> <<>>, elt |-> elt]

StaticShapes == SeqsUpTo(Sizes, MaxRank)

Shapes == SeqsUpTo(Sizes \cup {kDynamic}, MaxRank)

DynamicShapes == SeqsUpTo({kDynamic}, MaxRank)

NoOp == [name |-> "none"]

MhloOp(name, operand_type, operand_dims, result_type, output_dimensions, shape_is_index, broadcast_dimensions) ==
  [name |-> name, operand_type |-> operand_type, operand_dims |-> operand_dims,
   result_type |-> result_type, output_dimensions |-> output_dimensions,
   shape_is_index |-> shape_is_index,
   broadcast_dimensions |-> broadcast_dimensions]

\* Run-time sizes a buffer of static/dynamic shape `shape` can have.
RuntimeDims(shape) ==
  {dims \in [1..Len(shape) -> Sizes] :
     \A k \in 1..Len(shape) : isDynamic(shape[k]) \/ dims[k] = shape[k]}

\* Result types whose static dimensions agree with output_dimensions.
ResultShapes(output_dimensions) ==
  {shape \in [1..Len(output_dimensions) -> Sizes \cup {kDynamic}] :
     \A k \in 1..Len(shape) :
       isDynamic(shape[k]) \/ shape[k] = output_dimensions[k]}

\* Operand tensor types of the two reshapes: unranked, or ranked and dynamic.
ReshapeOperandTypes(elt) ==
  {UnrankedTensorType(elt)} \cup {RankedTensorType(s, elt) : s \in DynamicShapes}

IsReshapeOp(o) ==
  \E elt \in ElementTypes, s \in StaticShapes :
    \E t \in ReshapeOperandTypes(elt) :
      o = MhloOp(ReshapeOp, t, <<>>, RankedTensorType(s, elt), <<>>, TRUE, <<>>)

IsDynamicReshapeOp(o) ==
  \E elt \in ElementTypes :
    \E t \in ReshapeOperandTypes(elt),
       r \in {UnrankedTensorType(elt)} \cup
             {RankedTensorType(s, elt) : s \in Shapes} :
      o = MhloOp(DynamicReshapeOp, t, <<>>, r, <<>>, TRUE, <<>>)

\* Broadcasts of a scalar (rank 0) or of an unranked operand.
IsScalarBroadcastOp(o) ==
  \E elt \in ElementTypes, idx \in BOOLEAN :
    \E t \in {UnrankedTensorType(elt), RankedTensorType(<<>>, elt)} :
      \/ o = MhloOp(DynamicBroadcastInDimOp, t, <<>>, UnrankedTensorType(elt),
                    <<>>, idx, <<>>)
      \/ \E out \in StaticShapes :
           \E s \in ResultShapes(out) :
             o = MhloOp(DynamicBroadcastInDimOp, t, <<>>,
                        RankedTensorType(s, elt), out, idx, <<>>)

\* Broadcasts of a ranked operand of any rank up to the result's, every
\* mapping of operand dimensions to result dimensions, result fully dynamic.
IsRankedBroadcastOp(o) ==
  \E out \in StaticShapes :
    \E in \in SeqsUpTo(Sizes \cup {kDynamic}, Len(out)) :
      \E dims \in RuntimeDims(in), bd \in [1..Len(in) -> 0..(Len(out) - 1)] :
        o = MhloOp(DynamicBroadcastInDimOp, RankedTensorType(in, "f32"), dims,
                   RankedTensorType([k \in 1..Len(out) |-> kDynamic], "f32"),
                   out, TRUE, bd)

IsPassOp(o) == IsReshapeOp(o) \/ IsDynamicReshapeOp(o) \/ IsScalarBroadcastOp(o)

\* The buffer getBuffer yields for operand 0: the memref of the tensor's type.
OperandBuffer(op) ==
  [type |-> IF op.operand_type.ranked
              THEN MemRefType(op.operand_type.shape, op.operand_type.elt,
                              "identity")
              ELSE UnrankedMemRefType(op.operand_type.elt),
   dims |-> op.operand_dims]

\* What reading an unranked memref as a MemRefType may yield when the cast
\* is unchecked: some ranked type.
GarbageOperands(elt) ==
  {[type |-> MemRefType(<<>>, elt, "identity"), dims |-> <<>>]} \cup
  {[type |-> MemRefType(<<kDynamic>>, elt, "identity"), dims |-> <<n>>] :
     n \in Sizes}

(***************************************************************************)
(* State.                                                                  *)
(***************************************************************************)
VARIABLES
  driver,         \* who runs bufferization: "pass" (HloLegalizeToMemrefPass)
                  \* or "client" (another user of the registered models)
  asserts,        \* whether the build checks assert() and cast<>
  options,        \* BufferizationOptions: dialect filter, state initializers
  driverPc,       \* created, configured, bufferizing, finished, failed, dead
  dialect_state,  \* namespaces whose dialect state the BufferizationState holds
  initCount,      \* how many times the mhlo state initializer has run
  visited,        \* operations bufferized so far in this run
  op,             \* the operation being rewritten
  enforce,        \* enforce_identity_map_fn(op) of the policy in the state
  pc,             \* position inside the strategy's bufferize
  outcome,        \* none, success, failure, abort, crash
  emitted,        \* operations created on behalf of op, in order
  requested,      \* getBuffer calls for op: operand number and success
  result,         \* DynamicBroadcastInDimOpInterface::bufferize's `result`
  scan,           \* InsertDynamicMemrefCastOp's operand_sizes, operand_strides
  replacement,    \* the value the operation's result was replaced with
  declared        \* the effect declarations the driver read for op

vars == <<driver, asserts, options, driverPc, dialect_state, initCount, visited,
          op, enforce, pc, outcome, emitted, requested, result, scan, replacement,
          declared>>

buildVars == <<driver, asserts>>
driverVars == <<options, driverPc, dialect_state, initCount, visited>>
opVars == <<op, enforce, declared>>

NoValue == [name |-> "none"]

NoScan == [operand_sizes |-> <<>>, operand_strides |-> <<>>]

NoDeclarations == [readsMemory |-> FALSE, writesMemory |-> FALSE,
                   aliasingResults |-> {}, bufferRelation |-> "none"]

Init ==
  /\ driver \in {"pass", "client"}
  /\ asserts \in BOOLEAN
  /\ \/ /\ driver = "pass"
        /\ driverPc = "created"
        /\ options = [filter |-> {}, initializers |-> {}]
     \/ /\ driver = "client"
        /\ driverPc = "configured"
        /\ options \in [filter : {{MhloNamespace}},
                        initializers : SUBSET {MhloNamespace}]
  /\ dialect_state = {}
  /\ initCount = 0
  /\ visited = 0
  /\ op = NoOp
  /\ enforce = FALSE
  /\ pc = "idle"
  /\ outcome = "none"
  /\ emitted = <<>>
  /\ requested = <<>>
  /\ result = NoValue
  /\ scan = NoScan
  /\ replacement = NoValue
  /\ declared = NoDeclarations

(***************************************************************************)
(* The pass and the bufferization driver.                                  *)
(***************************************************************************)
\* A pass that registers no dialect state initializer.
NoDialectStateInitializers == {}

\* options.addDialectStateInitializer(MhloDialect::getDialectNamespace(), ...)
DialectStateInitializers == {MhloNamespace}

\* runOnOperation up to its call of bufferizeOp.
runOnOperation ==
  /\ driver = "pass"
  /\ driverPc = "created"
  /\ options' = [filter |-> {MhloNamespace},
                 initializers |-> DialectStateInitializers]
  /\ driverPc' = "configured"
  /\ UNCHANGED <<buildVars, dialect_state, initCount, visited, opVars, pc,
                 outcome, emitted, requested, result, scan, replacement>>

\* bufferizeOp builds the BufferizationState: every registered initializer
\* runs once and its state is stored under its namespace.
bufferizeOp ==
  /\ driverPc = "configured"
  /\ dialect_state' = options.initializers
  /\ initCount' = initCount + Cardinality(options.initializers)
  /\ driverPc' = "bufferizing"
  /\ UNCHANGED <<buildVars, options, visited, opVars, pc, outcome, emitted,
                 requested, result, scan, replacement>>

\* The driver reaches an operation of a filtered dialect that has a model,
\* reads its declarations and calls its bufferize.
Visit ==
  /\ driverPc = "bufferizing"
  /\ pc = "idle"
  /\ visited < MaxOps
  /\ MhloNamespace \in options.filter
  /\ IsPassOp(op')
  /\ op'.name \in RegisteredModels
  /\ declared' = Declarations(op'.name)
  /\ enforce' \in IF MhloNamespace \in dialect_state THEN BOOLEAN ELSE {FALSE}
  /\ pc' = "bufferize"
  /\ outcome' = "none"
  /\ emitted' = <<>>
  /\ requested' = <<>>
  /\ result' = NoValue
  /\ scan' = NoScan
  /\ replacement' = NoValue
  /\ UNCHANGED <<buildVars, driverVars>>

\* bufferize returned success: the driver goes on to the next operation.
OpBufferized ==
  /\ pc = "returned"
  /\ outcome = "success"
  /\ driverPc = "bufferizing"
  /\ visited' = visited + 1
  /\ op' = NoOp
  /\ enforce' = FALSE
  /\ declared' = NoDeclarations
  /\ pc' = "idle"
  /\ outcome' = "none"
  /\ emitted' = <<>>
  /\ requested' = <<>>
  /\ result' = NoValue
  /\ scan' = NoScan
  /\ replacement' = NoValue
  /\ UNCHANGED <<buildVars, options, driverPc, dialect_state, initCount>>

\* bufferize returned failure: bufferizeOp fails and the pass signals it.
signalPassFailure ==
  /\ pc = "returned"
  /\ outcome = "failure"
  /\ driverPc = "bufferizing"
  /\ driverPc' = "failed"
  /\ UNCHANGED <<buildVars, options, dialect_state, initCount, visited, opVars,
                 pc, outcome, emitted, requested, result, scan, replacement>>

\* No operation is left: bufferizeOp succeeds.
Finish ==
  /\ driverPc = "bufferizing"
  /\ pc = "idle"
  /\ driverPc' = "finished"
  /\ UNCHANGED <<buildVars, options, dialect_state, initCount, visited, opVars,
                 pc, outcome, emitted, requested, result, scan, replacement>>

(***************************************************************************)
(* Steps shared by the strategies.                                         *)
(***************************************************************************)
ReturnFailure ==
  /\ pc' = "returned"
  /\ outcome' = "failure"

\* The process ends inside bufferize: a failed assertion, or a crash.
Stop(how) ==
  /\ pc' = "stopped"
  /\ outcome' = how
  /\ driverPc' = "dead"
  /\ UNCHANGED <<buildVars, options, dialect_state, initCount, visited, opVars,
                 emitted, requested, result, scan, replacement>>

\* state.getBuffer(rewriter, op->getOpOperand(n)): fails or yields the buffer.
GetBuffer(n, next) ==
  /\ \E ok \in BOOLEAN :
       /\ requested' = Append(requested, [operand |-> n, ok |-> ok])
       /\ IF ok THEN pc' = next /\ outcome' = outcome ELSE ReturnFailure
  /\ UNCHANGED <<buildVars, driverVars, opVars, emitted, result, scan, replacement>>

\* replaceOpWithNewBufferizedOp / replaceOpWithBufferizedValues, then success.
ReplaceWith(created, value) ==
  /\ emitted' = emitted \o created
  /\ replacement' = value
  /\ pc' = "returned"
  /\ outcome' = "success"
  /\ UNCHANGED <<buildVars, driverVars, opVars, requested, result, scan>>

(***************************************************************************)
(* ReshapeOpInterface::bufferize.                                          *)
(***************************************************************************)
\* The entry of bufferize without the test of the operand's type.
Reshape_operandTypeUnchecked ==
  /\ pc = "bufferize"
  /\ op.name = ReshapeOp
  /\ pc' = "get_operand"
  /\ UNCHANGED <<buildVars, driverVars, opVars, outcome, emitted, requested,
                 result, scan, replacement>>

\* dyn_cast<UnrankedTensorType> of the operand's type; failure when null.
Reshape_operandType ==
  /\ pc = "bufferize"
  /\ op.name = ReshapeOp
  /\ IF op.operand_type.ranked THEN ReturnFailure
                               ELSE pc' = "get_operand" /\ outcome' = outcome
  /\ UNCHANGED <<buildVars, driverVars, opVars, emitted, requested, result,
                 scan, replacement>>

Reshape_getBuffer ==
  /\ pc = "get_operand"
  /\ op.name = ReshapeOp
  /\ GetBuffer(0, "replace")

\* The cast's destination type built from the operand's type.
ReshapeDestTypeOfOperand(o) ==
  MemRefType(o.operand_type.shape, o.result_type.elt, "identity")

\* MemRefType::get(result_type.getShape(), result_type.getElementType()).
ReshapeDestType(o) ==
  MemRefType(o.result_type.shape, o.result_type.elt, "identity")

Reshape_replace ==
  /\ pc = "replace"
  /\ op.name = ReshapeOp
  /\ LET cast == Created("memref.cast", [source |-> "operand_buffer",
                                         type   |-> ReshapeDestType(op)])
     IN ReplaceWith(<<cast>>, cast)

(***************************************************************************)
(* DynamicReshapeOpInterface::bufferize.                                   *)
(***************************************************************************)
DynamicReshape_getOperandBuffer ==
  /\ pc = "bufferize"
  /\ op.name = DynamicReshapeOp
  /\ GetBuffer(0, "get_shape")

DynamicReshape_getShapeBuffer ==
  /\ pc = "get_shape"
  /\ op.name = DynamicReshapeOp
  /\ GetBuffer(1, "replace")

\* A result type that is ranked whatever the tensor type is.
DynamicReshapeResultTypeRanked(o) ==
  MemRefType(o.result_type.shape, o.result_type.elt, "identity")

\* MemRefType of a ranked result, UnrankedMemRefType of an unranked one.
DynamicReshapeResultType(o) ==
  IF o.result_type.ranked
    THEN MemRefType(o.result_type.shape, o.result_type.elt, "identity")
    ELSE UnrankedMemRefType(o.result_type.elt)

DynamicReshape_replace ==
  /\ pc = "replace"
  /\ op.name = DynamicReshapeOp
  /\ LET reshape == Created("memref.reshape",
                            [source |-> "operand_buffer",
                             shape  |-> "output_shape_buffer",
                             type   |-> DynamicReshapeResultType(op)])
     IN ReplaceWith(<<reshape>>, reshape)

(***************************************************************************)
(* DynamicBroadcastInDimOpInterface::bufferize.                            *)
(***************************************************************************)
\* dyn_cast<RankedTensorType> of the result's type; failure when null.
DynamicBroadcastInDim_resultType ==
  /\ pc = "bufferize"
  /\ op.name = DynamicBroadcastInDimOp
  /\ IF op.result_type.ranked THEN pc' = "get_operand" /\ outcome' = outcome
                              ELSE ReturnFailure
  /\ UNCHANGED <<buildVars, driverVars, opVars, emitted, requested, result,
                 scan, replacement>>

DynamicBroadcastInDim_getBuffer ==
  /\ pc = "get_operand"
  /\ op.name = DynamicBroadcastInDimOp
  /\ GetBuffer(0, "insert_cast")

\* result = InsertDynamicMemrefCastOp(op, operand_buffer, &rewriter)
InsertCast(operand) ==
  LET cast == InsertDynamicMemrefCastOp(op, operand)
  IN /\ emitted' = emitted \o cast.ops
     /\ result' = cast.view
     /\ scan' = [operand_sizes   |-> cast.scan.operand_sizes,
                 operand_strides |-> cast.scan.operand_strides]
     /\ pc' = "dialect_state"
     /\ UNCHANGED <<buildVars, driverVars, opVars, outcome, requested,
                    replacement>>

\* The operand buffer is a ranked memref: cast<MemRefType> yields its type.
DynamicBroadcastInDim_insertCast ==
  /\ pc = "insert_cast"
  /\ op.name = DynamicBroadcastInDimOp
  /\ OperandBuffer(op).type.ranked
  /\ InsertCast(OperandBuffer(op))

\* The operand buffer is an unranked memref and cast<> is checked.
DynamicBroadcastInDim_castAssert ==
  /\ pc = "insert_cast"
  /\ op.name = DynamicBroadcastInDimOp
  /\ ~OperandBuffer(op).type.ranked
  /\ asserts
  /\ Stop("abort")

\* The operand buffer is an unranked memref and cast<> is not checked: the
\* type read is whatever the storage holds, or the read crashes.
DynamicBroadcastInDim_castUnchecked ==
  /\ pc = "insert_cast"
  /\ op.name = DynamicBroadcastInDimOp
  /\ ~OperandBuffer(op).type.ranked
  /\ ~asserts
  /\ \/ Stop("crash")
     \/ \E g \in GarbageOperands(op.operand_type.elt) : InsertCast(g)

\* getDialectState finds the mhlo state.
DynamicBroadcastInDim_dialectState ==
  /\ pc = "dialect_state"
  /\ MhloNamespace \in dialect_state
  /\ pc' = "enforce"
  /\ UNCHANGED <<buildVars, driverVars, opVars, outcome, emitted, requested,
                 result, scan, replacement>>

\* A missing mhlo state answered by `return failure()`.
DynamicBroadcastInDim_dialectStateFailure ==
  /\ pc = "dialect_state"
  /\ MhloNamespace \notin dialect_state
  /\ asserts
  /\ ReturnFailure
  /\ UNCHANGED <<buildVars, driverVars, opVars, emitted, requested, result,
                 scan, replacement>>

\* getDialectState finds nothing and the assertion is checked.
DynamicBroadcastInDim_dialectStateAssert ==
  /\ pc = "dialect_state"
  /\ MhloNamespace \notin dialect_state
  /\ asserts
  /\ Stop("abort")

\* getDialectState finds nothing and the assertion is compiled out: the empty
\* Optional is dereferenced, the call crashes or returns some boolean.
DynamicBroadcastInDim_dialectStateUnchecked ==
  /\ pc = "dialect_state"
  /\ MhloNamespace \notin dialect_state
  /\ ~asserts
  /\ \/ Stop("crash")
     \/ /\ enforce' \in BOOLEAN
        /\ pc' = "enforce"
        /\ UNCHANGED <<buildVars, driverVars, op, declared, outcome, emitted,
                       requested, result, scan, replacement>>

\* A policy that is never asked: the copy is always made.
EnforceIdentityMapAlways == TRUE

\* (*dialect_state)->enforce_identity_map_fn(op)
EnforceIdentityMap == enforce

\* if (enforce_identity_map_fn(op)) result = CreateCopy(op, result, &rewriter)
DynamicBroadcastInDim_enforce ==
  /\ pc = "enforce"
  /\ IF EnforceIdentityMap
       THEN LET copy == CreateCopy(op, result)
            IN /\ emitted' = emitted \o copy.ops
               /\ result' = copy.copy
       ELSE UNCHANGED <<emitted, result>>
  /\ pc' = "replace"
  /\ UNCHANGED <<buildVars, driverVars, opVars, outcome, requested, scan,
                 replacement>>

\* replaceOpWithBufferizedValues(rewriter, op, result); return success()
DynamicBroadcastInDim_replace ==
  /\ pc = "replace"
  /\ op.name = DynamicBroadcastInDimOp
  /\ replacement' = result
  /\ pc' = "returned"
  /\ outcome' = "success"
  /\ UNCHANGED <<buildVars, driverVars, opVars, emitted, requested, result,
                 scan>>

(***************************************************************************)
(* Specifications.                                                         *)
(***************************************************************************)
Next ==
  \/ runOnOperation
  \/ bufferizeOp
  \/ Visit
  \/ OpBufferized
  \/ signalPassFailure
  \/ Finish
  \/ Reshape_operandType
  \/ Reshape_getBuffer
  \/ Reshape_replace
  \/ DynamicReshape_getOperandBuffer
  \/ DynamicReshape_getShapeBuffer
  \/ DynamicReshape_replace
  \/ DynamicBroadcastInDim_resultType
  \/ DynamicBroadcastInDim_getBuffer
  \/ DynamicBroadcastInDim_insertCast
  \/ DynamicBroadcastInDim_castAssert
  \/ DynamicBroadcastInDim_castUnchecked
  \/ DynamicBroadcastInDim_dialectState
  \/ DynamicBroadcastInDim_dialectStateAssert
  \/ DynamicBroadcastInDim_dialectStateUnchecked
  \/ DynamicBroadcastInDim_enforce
  \/ DynamicBroadcastInDim_replace

\* Bufferization runs driven by the pass or by another client, over reshapes,
\* dynamic reshapes and broadcasts of scalar or unranked operands.
Spec == Init /\ [][Next]_vars

\* InsertDynamicMemrefCastOp applied to every broadcast of a ranked operand:
\* the rewrite stands where the operand's buffer has just been obtained.
InitView ==
  /\ driver = "client"
  /\ asserts = TRUE
  /\ options = [filter |-> {MhloNamespace}, initializers |-> {MhloNamespace}]
  /\ driverPc = "bufferizing"
  /\ dialect_state = {MhloNamespace}
  /\ initCount = 1
  /\ visited = 0
  /\ IsRankedBroadcastOp(op)
  /\ enforce = FALSE
  /\ pc = "insert_cast"
  /\ outcome = "none"
  /\ emitted = <<>>
  /\ requested = <<[operand |-> 0, ok |-> TRUE]>>
  /\ result = NoValue
  /\ scan = NoScan
  /\ replacement = NoValue
  /\ declared = Declarations(DynamicBroadcastInDimOp)

NextView == DynamicBroadcastInDim_insertCast

SpecView == InitView /\ [][NextView]_vars

(***************************************************************************)
(* Properties of the view (checked under SpecView).                        *)
(***************************************************************************)
ViewBuilt == pc = "dialect_state" /\ result.name = "memref.reinterpret_cast"

OperandRank == Len(op.operand_dims)

ResultRank == Len(op.output_dimensions)

\* The operand dimensions the mapping sends to output dimension d.
MappedTo(d) == {i \in 0..(OperandRank - 1) : op.broadcast_dimensions[i + 1] = d}

ViewStride(d) == result.detail.strides[d + 1]

RECURSIVE ProductFrom(_, _)
\* The product of dims[j], j = from .. Len(dims).
ProductFrom(dims, from) ==
  IF from > Len(dims) THEN 1 ELSE dims[from] * ProductFrom(dims, from + 1)

RECURSIVE RowMajorPrefix(_, _, _)
\* Row-major linear offset of the first n components of index idx.
RowMajorPrefix(idx, dims, n) ==
  IF n = 0 THEN 0 ELSE RowMajorPrefix(idx, dims, n - 1) * dims[n] + idx[n]

RECURSIVE DotPrefix(_, _, _)
DotPrefix(k, strides, n) ==
  IF n = 0 THEN 0 ELSE DotPrefix(k, strides, n - 1) + k[n] * strides[n]

\* Multi-indices within sizes.
IndicesWithin(sizes) ==
  {k \in [1..Len(sizes) -> 0..(MaxSize - 1)] :
     \A d \in 1..Len(sizes) : k[d] < sizes[d]}

StrictlyIncreasing(seq) ==
  \A a, b \in 1..Len(seq) : a < b => seq[a] < seq[b]

\* Every mapped operand dimension has size 1 or the target's size.
BroadcastCompatible ==
  \A i \in 1..OperandRank :
    \/ op.operand_dims[i] = 1
    \/ op.operand_dims[i] = op.output_dimensions[op.broadcast_dimensions[i] + 1]

\* The operand index output index k stands for.
OperandIndex(k) ==
  [i \in 1..OperandRank |->
     IF op.operand_dims[i] = op.output_dimensions[op.broadcast_dimensions[i] + 1]
       THEN k[op.broadcast_dimensions[i] + 1]
       ELSE 0]

\* C1: once the view is built, every output dimension d has a stride; it is
\* 0 when no operand dimension is mapped to d; otherwise, for an operand
\* dimension i mapped to d, it is 0 when the operand's size of i is less than
\* output_dimensions[d] and the scan's stride of i when it is not.
C1_StrideSelection ==
  ViewBuilt =>
    /\ Len(result.detail.strides) = ResultRank
    /\ \A d \in 0..(ResultRank - 1) :
         IF MappedTo(d) = {}
           THEN ViewStride(d) = 0
           ELSE \E i \in MappedTo(d) :
                  ViewStride(d) =
                    IF op.operand_dims[i + 1] < op.output_dimensions[d + 1]
                      THEN 0
                      ELSE scan.operand_strides[i + 1]

\* A view with one mapped dimension expanded (stride forced to 0 although the
\* operand's stride is not) and one mapped dimension kept.
C1_Witness ==
  /\ ViewBuilt
  /\ \E d \in 0..(ResultRank - 1) : \E i \in MappedTo(d) :
       /\ op.operand_dims[i + 1] < op.output_dimensions[d + 1]
       /\ scan.operand_strides[i + 1] > 0
       /\ ViewStride(d) = 0
  /\ \E d \in 0..(ResultRank - 1) : \E i \in MappedTo(d) :
       /\ op.operand_dims[i + 1] = op.output_dimensions[d + 1]
       /\ ViewStride(d) > 0

\* C2: for a strictly increasing mapping and operand sizes that are 1 or the
\* target's, the view has the target's sizes and reads, at every output index
\* k within them, linear offset sum_d k[d] * stride[d], which is the row-major
\* offset in the operand of the operand index k stands for.
C2_ViewAddress ==
  (ViewBuilt /\ StrictlyIncreasing(op.broadcast_dimensions) /\ BroadcastCompatible)
    => /\ result.detail.sizes = op.output_dimensions
       /\ result.detail.offset = 0
       /\ \A k \in IndicesWithin(op.output_dimensions) :
            result.detail.offset + DotPrefix(k, result.detail.strides, ResultRank)
              = RowMajorPrefix(OperandIndex(k), op.operand_dims, OperandRank)

\* A rank-1 operand of more than one element placed in the last dimension of
\* a result with a new leading dimension of more than one element.
C2_Witness ==
  /\ ViewBuilt
  /\ BroadcastCompatible
  /\ OperandRank = 1
  /\ ResultRank = 2
  /\ op.broadcast_dimensions = <<1>>
  /\ op.operand_dims[1] > 1
  /\ op.output_dimensions[1] > 1

Ended == pc \in {"returned", "stopped"}

Returned(how) == pc = "returned" /\ outcome = how

PolicyPresent == MhloNamespace \in dialect_state

BufferFailed == \E k \in DOMAIN requested : ~requested[k].ok

BuffersObtained(operands) ==
  /\ Len(requested) = Len(operands)
  /\ \A k \in DOMAIN requested :
       requested[k] = [operand |-> operands[k], ok |-> TRUE]

\* The rewrite of a broadcast is past the construction of its view.
InPhaseB ==
  /\ op.name = DynamicBroadcastInDimOp
  /\ \E k \in DOMAIN emitted : emitted[k].name = "memref.reinterpret_cast"

Count(name) == Cardinality(OfName(emitted, name))

TheOp(name) == emitted[CHOOSE k \in OfName(emitted, name) : TRUE]

\* The dimensions of shape that are dynamic, in order.
DynamicDims(shape) ==
  SelectSeq([k \in 1..Len(shape) |-> k], LAMBDA k : shape[k] = kDynamic)

\* C3: a broadcast rewritten with the policy present ends, when the policy
\* holds of the operation, with one allocation of an identity-layout buffer
\* of the result's shape (one size operand per dynamic dimension, read from
\* output_dimensions), one copy of the view into it, and the allocation as
\* the replacement; when the policy does not hold, with no allocation, no
\* copy and the view as the replacement.
C3_PolicyDecidesCopy ==
  (Returned("success") /\ op.name = DynamicBroadcastInDimOp /\ PolicyPresent) =>
    /\ Count("memref.reinterpret_cast") = 1
    /\ IF enforce
         THEN /\ Count("memref.alloc") = 1
              /\ Count("memref.copy") = 1
              /\ LET alloc == TheOp("memref.alloc")
                     dyn == DynamicDims(op.result_type.shape)
                 IN /\ alloc.detail.type.shape = op.result_type.shape
                    /\ alloc.detail.type.elt = op.result_type.elt
                    /\ alloc.detail.type.layout = "identity"
                    /\ Len(alloc.detail.dynamic_operands) = Len(dyn)
                    /\ \A j \in 1..Len(dyn) :
                         alloc.detail.dynamic_operands[j]
                           = op.output_dimensions[dyn[j]]
                    /\ TheOp("memref.copy").detail.source
                         = TheOp("memref.reinterpret_cast")
                    /\ TheOp("memref.copy").detail.target = alloc
                    /\ replacement.name = "memref.alloc"
                    /\ replacement = alloc
         ELSE /\ Count("memref.alloc") = 0
              /\ Count("memref.copy") = 0
              /\ replacement.name = "memref.reinterpret_cast"
              /\ replacement = TheOp("memref.reinterpret_cast")

\* A broadcast the policy did not hold of, replaced by its view, whose result
\* has a dynamic and a static dimension.
C3_Witness ==
  /\ Returned("success")
  /\ op.name = DynamicBroadcastInDimOp
  /\ PolicyPresent
  /\ ~enforce
  /\ replacement.name = "memref.reinterpret_cast"
  /\ \E a, b \in 1..Len(op.result_type.shape) :
       isDynamic(op.result_type.shape[a]) /\ ~isDynamic(op.result_type.shape[b])

\* The three error classes as states of an ended rewrite.
UnsupportedTypeTested ==
  \/ op.name = ReshapeOp /\ op.operand_type.ranked
  \/ op.name = DynamicBroadcastInDimOp /\ ~op.result_type.ranked

PolicyMissing == InPhaseB /\ ~PolicyPresent

\* The operand buffer of a broadcast is requested, obtained, and unranked.
UnrankedOperandBuffer ==
  /\ op.name = DynamicBroadcastInDimOp
  /\ BuffersObtained(<<0>>)
  /\ ~op.operand_type.ranked

\* C4 as stated: an ended rewrite that met an unsupported tensor type, an
\* operand without buffer or a missing policy has returned failure.
C4_AllClassesReturnFailure ==
  (Ended /\ (UnsupportedTypeTested \/ BufferFailed \/ PolicyMissing))
    => Returned("failure")

\* C4 amended: an unsupported tensor type the strategy tests for and an
\* operand without buffer end in a returned failure; a missing policy never
\* does, and ends in an abort when assertions are checked, as does a
\* broadcast whose operand buffer is unranked.
C4_FailureOrAssertion ==
  Ended =>
    /\ (UnsupportedTypeTested \/ BufferFailed) => Returned("failure")
    /\ PolicyMissing => outcome # "failure"
    /\ (PolicyMissing /\ asserts) => pc = "stopped" /\ outcome = "abort"
    /\ (UnrankedOperandBuffer /\ asserts) => pc = "stopped" /\ outcome = "abort"

\* A broadcast stopped by the assertion on the missing policy.
C4_Witness ==
  /\ pc = "stopped"
  /\ outcome = "abort"
  /\ PolicyMissing
  /\ op.operand_type.ranked

C6_PolicyInitializedOnce ==
  /\ [](driver = "pass" =>
          /\ initCount <= 1
          /\ (pc # "idle" \/ visited > 0) => (PolicyPresent /\ initCount = 1)
          /\ pc = "dialect_state" => PolicyPresent)
  /\ [][(driver = "pass" /\ PolicyPresent)
          => (dialect_state' = dialect_state /\ initCount' = initCount)]_vars

\* The pass has a broadcast at its policy lookup.
C6_Witness ==
  /\ driver = "pass"
  /\ pc = "dialect_state"
  /\ op.name = DynamicBroadcastInDimOp
  /\ visited > 0

\* C7: the declarations the driver reads are those of the operation's kind:
\* no read, no write, result 0 aliased, Equivalent for the reshapes; read, no
\* write, result 0 aliased, not Equivalent for the broadcast; and every copy
\* emitted writes into the buffer allocated for it, never into the operand's
\* buffer or a view of it.
C7_Declarations ==
  /\ op.name \in {ReshapeOp, DynamicReshapeOp} =>
       declared = [readsMemory |-> FALSE, writesMemory |-> FALSE,
                   aliasingResults |-> {0}, bufferRelation |-> "Equivalent"]
  /\ op.name = DynamicBroadcastInDimOp =>
       /\ declared.readsMemory
       /\ ~declared.writesMemory
       /\ declared.aliasingResults = {0}
       /\ declared.bufferRelation \notin {"Equivalent", "none"}
  /\ \A k \in OfName(emitted, "memref.copy") :
       emitted[k].detail.target.name = "memref.alloc"

\* A broadcast that has emitted its copy.
C7_Witness ==
  /\ op.name = DynamicBroadcastInDimOp
  /\ Count("memref.copy") = 1
  /\ declared.bufferRelation = "None"

\* C8: a reshape of an operand that is not unranked returns failure without
\* asking for a buffer or emitting; a reshape of an unranked operand whose
\* buffer is obtained returns success, having emitted one memref.cast of the
\* operand's buffer to the identity memref of the result's shape and element
\* type, which replaces the operation.
C8_Reshape ==
  (pc = "returned" /\ op.name = ReshapeOp) =>
    /\ op.operand_type.ranked =>
         outcome = "failure" /\ requested = <<>> /\ emitted = <<>>
    /\ (~op.operand_type.ranked /\ BuffersObtained(<<0>>)) =>
         /\ outcome = "success"
         /\ Len(emitted) = 1
         /\ emitted[1].name = "memref.cast"
         /\ emitted[1].detail.source = "operand_buffer"
         /\ emitted[1].detail.type =
              [ranked |-> TRUE, shape |-> op.result_type.shape,
               elt |-> op.result_type.elt, layout |-> "identity"]
         /\ replacement.name = "memref.cast"
         /\ replacement = emitted[1]

\* A reshape of an unranked operand to a rank-2 result, done.
C8_Witness ==
  /\ Returned("success")
  /\ op.name = ReshapeOp
  /\ Len(op.result_type.shape) = 2
  /\ replacement.name = "memref.cast"

\* C9: a dynamic reshape that returns success has obtained the buffers of
\* operand 0 and operand 1 and emitted one memref.reshape of them, typed as
\* the identity memref of the result's shape and element type when the result
\* is ranked and as the unranked memref of its element type when it is not;
\* it returns failure when the buffer of operand 0 is not obtained.
C9_DynamicReshape ==
  (pc = "returned" /\ op.name = DynamicReshapeOp) =>
    /\ outcome = "success" =>
         /\ BuffersObtained(<<0, 1>>)
         /\ Len(emitted) = 1
         /\ emitted[1].name = "memref.reshape"
         /\ emitted[1].detail.source = "operand_buffer"
         /\ emitted[1].detail.shape = "output_shape_buffer"
         /\ emitted[1].detail.type =
              IF op.result_type.ranked
                THEN [ranked |-> TRUE, shape |-> op.result_type.shape,
                      elt |-> op.result_type.elt, layout |-> "identity"]
                ELSE [ranked |-> FALSE, shape |-> <<>>,
                      elt |-> op.result_type.elt, layout |-> "identity"]
         /\ replacement.name = "memref.reshape"
         /\ replacement = emitted[1]
    /\ (requested # <<>> /\ ~requested[1].ok) =>
         outcome = "failure" /\ Len(requested) = 1
    /\ BuffersObtained(<<0, 1>>) => outcome = "success"

\* A dynamic reshape to an unranked result, done.
C9_Witness ==
  /\ Returned("success")
  /\ op.name = DynamicReshapeOp
  /\ ~op.result_type.ranked
  /\ replacement.name = "memref.reshape"

====
